---- MODULE Spec2Model ----
(***************************************************************************)
(* gdb::unique_ptr, the C++03 emulation of std::unique_ptr                 *)
(* (gdb/common/gdb_unique_ptr.h, the #else branch at lines 62-326) and the *)
(* safe bool idiom it is built on (gdb/common/safe-bool.h).                *)
(*                                                                         *)
(* Objects live in a fixed set of slots.  A slot is either dead (no        *)
(* object) or holds one unique_ptr_base<T, D> object whose only field is   *)
(* m_ptr.  Raw addresses are allocation identities: an address is fresh    *)
(* until the caller first hands it to an object, and the calling code      *)
(* passes only valid pointer values (never one a deleter already ran on).  *)
(* Spec is the calling code that gives an address to one object at a time; *)
(* SpecAlias also hands an object an address that another object holds.    *)
(* The methods are operators over a store [m_ptr, freed, calls], so that a *)
(* handler that calls other methods is one action.                         *)
(***************************************************************************)
EXTENDS Integers, FiniteSets, Sequences, TLC

NInst == 2
NAddr == 2
MaxRefs == 1

NThreads == 2

NULL == 0
Tmp == 0
Shared == 1

Inst == 1..NInst
Addr == 1..NAddr
Ptr == {NULL} \cup Addr
Policy == {"default_delete", "xfree_deleter"}
Thread == 1..NThreads

\* live[i]       slot i holds an object (constructed, not yet destroyed)
\* m_ptr[i]      unique_ptr_base::m_ptr of the object in slot i (line 252)
\* policy[i]     its template parameter D (line 101)
\* freed[p][d]   how many times policy d has run on address p (lines 70, 78, 335)
\* fresh         addresses never yet passed to an object
\* callerOwned   addresses last returned by release () (line 195)
\* refs          unique_ptr_base_ref values in flight, <<m_ptr, D>> (lines 110-115)
\* dropped       addresses of unique_ptr_base_ref values that nobody consumed
\* last          the operation last executed: its name, this, the other
\*               operand, its address argument (or the other operand's
\*               address before), m_ptr of this before, the result and the
\*               deleter calls it made
\* thr[t]        thread t of the callers that share object Shared without a
\*               lock: the method it runs, the line it is at, the local tmp
\*               of release () and the value returned
VARIABLES live, m_ptr, policy, freed, fresh, callerOwned, refs, dropped, last,
          thr

vars == <<live, m_ptr, policy, freed, fresh, callerOwned, refs, dropped, last,
          thr>>

(* ---------------- the destruction policies ---------------- *)

\* D::operator() (T *ptr): delete ptr / delete [] ptr / xfree (ptr).  All
\* three do nothing on a null pointer; on a non-null one the pointee is
\* destroyed once more by policy d.
Deleter(f, d, ptr) ==
  IF ptr = NULL THEN f ELSE [f EXCEPT ![ptr][d] = @ + 1]

(* ---------------- the methods of unique_ptr_base ---------------- *)

\* A store: m_ptr of every object (slot Tmp is the by-value parameter of
\* move), the deleter invocations per address and policy, and the deleter
\* calls made by the running operation, in order, as <<policy, argument>>.
Store == [m_ptr |-> m_ptr @@ (Tmp :> NULL), freed |-> freed, calls |-> << >>]

\* explicit unique_ptr_base (element_type *p = NULL) : m_ptr (p) {}
ctor(s, i, p) == [s EXCEPT !.m_ptr[i] = p]

\* get () that returns NULL whatever is held.
get_null(s, i) == NULL

\* element_type *get () const { return m_ptr; }
get(s, i) == s.m_ptr[i]

\* The test inverted: return m_ptr == NULL;
explicit_operator_bool_inverted(s, i) == s.m_ptr[i] = NULL

\* bool explicit_operator_bool () const { return m_ptr != NULL; }
explicit_operator_bool(s, i) == s.m_ptr[i] # NULL

\* safe_bool<T>::operator bool_type (): the address of the marker member
\* (a non-null pointer to member, 1) when the object is truthy, else 0.
operator_bool_type(s, i) == IF explicit_operator_bool(s, i) THEN 1 ELSE 0

\* call_deleter with the deleter type written out instead of D:
\* default_delete<T> d; d (m_ptr);
call_deleter_default(s, i, d) ==
  [s EXCEPT !.freed = Deleter(s.freed, "default_delete", s.m_ptr[i]),
            !.calls = Append(s.calls, <<"default_delete", s.m_ptr[i]>>)]

\* void call_deleter () { D d; d (m_ptr); }
call_deleter(s, i, d) ==
  [s EXCEPT !.freed = Deleter(s.freed, d, s.m_ptr[i]),
            !.calls = Append(s.calls, <<d, s.m_ptr[i]>>)]

\* release () that forgets m_ptr = NULL.
release_noclear(s, i) == [st |-> s, ret |-> s.m_ptr[i]]

\* release () without the temporary: m_ptr = NULL; return m_ptr;
release_ret_after_clear(s, i) ==
  [st |-> [s EXCEPT !.m_ptr[i] = NULL], ret |-> NULL]

\* pointer tmp = m_ptr; m_ptr = NULL; return tmp;
release(s, i) == [st |-> [s EXCEPT !.m_ptr[i] = NULL], ret |-> s.m_ptr[i]]

\* The statements of release () and reset () one by one, as a caller that
\* shares an object without a lock interleaves them.
\* line 193: pointer tmp = m_ptr;
release_read(s, i) == s.m_ptr[i]

\* line 194 left out: m_ptr keeps its value.
release_clear_skip(s, i) == s

\* line 194: m_ptr = NULL;
release_clear(s, i) == [s EXCEPT !.m_ptr[i] = NULL]

\* line 203: if (p != m_ptr)
reset_test(s, i, p) == p # s.m_ptr[i]

\* line 206: m_ptr = p;
reset_store(s, i, p) == [s EXCEPT !.m_ptr[i] = p]

\* reset () without the test p != m_ptr.
reset_unguarded(s, i, d, p) == [call_deleter(s, i, d) EXCEPT !.m_ptr[i] = p]

\* reset () that never calls the deleter.
reset_nodelete(s, i, d, p) == [s EXCEPT !.m_ptr[i] = p]

\* reset () that tests p != NULL instead of p != m_ptr.
reset_guard_null(s, i, d, p) ==
  IF p # NULL
    THEN [call_deleter(s, i, d) EXCEPT !.m_ptr[i] = p]
    ELSE s

\* reset () that stores p before it calls the deleter.
reset_store_first(s, i, d, p) ==
  IF p # s.m_ptr[i]
    THEN call_deleter([s EXCEPT !.m_ptr[i] = p], i, d)
    ELSE s

\* if (p != m_ptr) { call_deleter (); m_ptr = p; }
reset(s, i, d, p) ==
  IF p # s.m_ptr[i]
    THEN [call_deleter(s, i, d) EXCEPT !.m_ptr[i] = p]
    ELSE s

\* unique_ptr_base (unique_ptr_base& a) : m_ptr (a.release ()) {}
copy_ctor(s, i, a) ==
  LET r == release(s, a) IN ctor(r.st, i, r.ret)

\* operator= that first resets itself, then resets to the released address:
\* reset (); reset (a.release ());
assign_reset_twice(s, i, d, a) ==
  LET s1 == reset(s, i, d, NULL)
      r == release(s1, a)
  IN  reset(r.st, i, d, r.ret)

\* operator= that reads a.get () and leaves a alone.
assign_keep(s, i, d, a) == reset(s, i, d, get(s, a))

\* operator= that destroys its own pointee first, then takes a's.
assign_destroy_first(s, i, d, a) ==
  LET r == release(call_deleter(s, i, d), a) IN ctor(r.st, i, r.ret)

\* operator= (unique_ptr_base &a) { reset (a.release ()); return *this; }
assign(s, i, d, a) ==
  LET r == release(s, a) IN reset(r.st, i, d, r.ret)

\* operator= from NULL that only forgets the address: release ();
assign_null_release(s, i, d) == release(s, i).st

\* operator= (const unique_ptr_nullptr_t &) { reset (); return *this; }
assign_null(s, i, d) == reset(s, i, d, NULL)

\* A destructor that does nothing.
dtor_noop(s, i, d) == s

\* ~unique_ptr_base () { call_deleter (); }
dtor(s, i, d) == call_deleter(s, i, d)

\* unique_ptr_base (unique_ptr_base_ref<element_type> ref) : m_ptr (ref.m_ptr) {}
ctor_ref(s, i, refptr) == [s EXCEPT !.m_ptr[i] = refptr]

\* operator= (unique_ptr_base_ref<element_type> ref)
assign_ref(s, i, d, refptr) ==
  IF refptr # get(s, i)
    THEN [call_deleter(s, i, d) EXCEPT !.m_ptr[i] = refptr]
    ELSE s

\* A conversion that wraps this->get () and leaves the source alone.
convert_noclear(s, i) == [st |-> s, ret |-> s.m_ptr[i]]

\* operator unique_ptr_base_ref<T1> () and operator unique_ptr_base<T1, D1> ():
\* both wrap this->release ().
convert(s, i) == release(s, i)

\* operator== that compares what the two objects convert to in a boolean
\* context instead of their addresses.
operator_eq_truthiness(s, x, y) ==
  operator_bool_type(s, x) = operator_bool_type(s, y)

\* operator== / operator!= on two unique_ptr_base objects
operator_eq(s, x, y) == get(s, x) = get(s, y)
operator_ne(s, x, y) == get(s, x) # get(s, y)

\* A safe_bool operator== that compares the two boolean projections.
safe_bool_eq_by_value(s, x, y) ==
  operator_bool_type(s, x) = operator_bool_type(s, y)

\* operator== / operator!= on two safe_bool objects: touch the inaccessible
\* marker member and return false.
safe_bool_eq(s, x, y) == FALSE
safe_bool_ne(s, x, y) == FALSE

\* move whose result is built from v.get (): v still holds the address when
\* it is destroyed.
move_copy_get(s, res, d, a) ==
  LET s1 == copy_ctor(s, Tmp, a)
      s2 == ctor(s1, res, get(s1, Tmp))
  IN  dtor(s2, Tmp, d)

\* move (unique_ptr_base<T, D> v) { return v; }: v is copy-constructed from
\* the argument, the result is copy-constructed from v, then v is destroyed.
move(s, res, d, a) ==
  LET s1 == copy_ctor(s, Tmp, a)
      s2 == copy_ctor(s1, res, Tmp)
  IN  dtor(s2, Tmp, d)

(* ---------------- the calling code ---------------- *)

Holders(p) == {i \in Inst : live[i] /\ m_ptr[i] = p}

Freed(p) == freed[p]["default_delete"] + freed[p]["xfree_deleter"]

\* Valid raw pointer values the caller can pass: NULL, a fresh allocation,
\* an address release () gave back, or an address it read with get () from
\* a live object; never an address already destroyed.
Suppliable ==
  {NULL} \cup {p \in Addr : Freed(p) = 0 /\
                 (p \in fresh \/ p \in callerOwned \/ Holders(p) # {})}

\* What a caller that gives an address to one object at a time passes to
\* object i: NULL, an address no object holds, or the one i holds itself.
Mine(i) == {p \in Ptr : p = NULL \/ Holders(p) \subseteq {i}}

\* Handing p to an object: p is no longer fresh nor the caller's.
Supply(p) ==
  /\ fresh' = fresh \ {p}
  /\ callerOwned' = callerOwned \ {p}

Rec(op, self, other, arg, pre, ret, calls) ==
  [op |-> op, self |-> self, other |-> other, arg |-> arg, pre |-> pre,
   ret |-> ret, calls |-> calls]

\* Write a store back to the objects.
Commit(s) ==
  /\ m_ptr' = [i \in Inst |-> s.m_ptr[i]]
  /\ freed' = s.freed

\* A thread that has not called anything.
Idle == [op |-> "none", pc |-> "idle", tmp |-> NULL, ret |-> NULL]

Init ==
  /\ live = [i \in Inst |-> FALSE]
  /\ m_ptr = [i \in Inst |-> NULL]
  /\ policy = [i \in Inst |-> "default_delete"]
  /\ freed = [p \in Addr |-> [d \in Policy |-> 0]]
  /\ fresh = Addr
  /\ callerOwned = {}
  /\ refs = {}
  /\ dropped = {}
  /\ last = Rec("init", 1, 0, NULL, NULL, NULL, << >>)
  /\ thr = [t \in Thread |-> Idle]

\* unique_ptr<T, D> i (p);
Construct(i, d, p) ==
  /\ ~live[i]
  /\ p \in Suppliable
  /\ LET s == ctor(Store, i, p) IN
       /\ Commit(s)
       /\ last' = Rec("ctor", i, 0, p, NULL, NULL, s.calls)
  /\ live' = [live EXCEPT ![i] = TRUE]
  /\ policy' = [policy EXCEPT ![i] = d]
  /\ Supply(p)
  /\ UNCHANGED <<refs, dropped, thr>>

\* unique_ptr<T, D> i (a);
CopyConstruct(i, a) ==
  /\ ~live[i] /\ live[a]
  /\ LET s == copy_ctor(Store, i, a) IN
       /\ Commit(s)
       /\ last' = Rec("copy_ctor", i, a, m_ptr[a], NULL, NULL, s.calls)
  /\ live' = [live EXCEPT ![i] = TRUE]
  /\ policy' = [policy EXCEPT ![i] = policy[a]]
  /\ UNCHANGED <<fresh, callerOwned, refs, dropped, thr>>

\* i = a;  (a may be i itself)
Assign(i, a) ==
  /\ live[i] /\ live[a] /\ policy[i] = policy[a]
  /\ LET s == assign(Store, i, policy[i], a) IN
       /\ Commit(s)
       /\ last' = Rec("assign", i, a, m_ptr[a], m_ptr[i], NULL, s.calls)
  /\ UNCHANGED <<live, policy, fresh, callerOwned, refs, dropped, thr>>

\* i = NULL;
AssignNull(i) ==
  /\ live[i]
  /\ LET s == assign_null(Store, i, policy[i]) IN
       /\ Commit(s)
       /\ last' = Rec("assign_null", i, 0, NULL, m_ptr[i], NULL, s.calls)
  /\ UNCHANGED <<live, policy, fresh, callerOwned, refs, dropped, thr>>

\* i goes out of scope.  The slot has no object afterwards.
Destroy(i) ==
  /\ live[i]
  /\ LET s == dtor(Store, i, policy[i]) IN
       /\ Commit([s EXCEPT !.m_ptr[i] = NULL])
       /\ last' = Rec("dtor", i, 0, NULL, m_ptr[i], NULL, s.calls)
  /\ live' = [live EXCEPT ![i] = FALSE]
  /\ policy' = [policy EXCEPT ![i] = "default_delete"]
  /\ UNCHANGED <<fresh, callerOwned, refs, dropped, thr>>

\* if (i) ...
BoolTest(i) ==
  /\ live[i]
  /\ last' = Rec("bool", i, 0, NULL, m_ptr[i],
                 operator_bool_type(Store, i), << >>)
  /\ UNCHANGED <<live, m_ptr, policy, freed, fresh, callerOwned, refs, dropped, thr>>

\* i.get ()
Get(i) ==
  /\ live[i]
  /\ last' = Rec("get", i, 0, NULL, m_ptr[i], get(Store, i), << >>)
  /\ UNCHANGED <<live, m_ptr, policy, freed, fresh, callerOwned, refs, dropped, thr>>

\* p = i.release ();  the caller owns p from now on.
Release(i) ==
  /\ live[i]
  /\ LET r == release(Store, i) IN
       /\ Commit(r.st)
       /\ last' = Rec("release", i, 0, NULL, m_ptr[i], r.ret, r.st.calls)
       /\ callerOwned' = IF r.ret # NULL THEN callerOwned \cup {r.ret}
                                          ELSE callerOwned
  /\ UNCHANGED <<live, policy, fresh, refs, dropped, thr>>

\* i.reset (p);
Reset(i, p) ==
  /\ live[i]
  /\ p \in Suppliable
  /\ LET s == reset(Store, i, policy[i], p) IN
       /\ Commit(s)
       /\ last' = Rec("reset", i, 0, p, m_ptr[i], NULL, s.calls)
  /\ Supply(p)
  /\ UNCHANGED <<live, policy, refs, dropped, thr>>

\* unique_ptr_base_ref<T1> r = i;  (operator unique_ptr_base_ref<T1> ())
\* The reference object carries the released address until it is consumed.
ToRef(i) ==
  /\ live[i]
  /\ Cardinality(refs) < MaxRefs
  /\ LET r == convert(Store, i) IN
       /\ Commit(r.st)
       /\ last' = Rec("to_ref", i, 0, NULL, m_ptr[i], r.ret, r.st.calls)
       /\ refs' = refs \cup {<<r.ret, policy[i]>>}
  /\ UNCHANGED <<live, policy, fresh, callerOwned, dropped, thr>>

\* unique_ptr<T, D> i (ref);
CtorFromRef(i, ref) ==
  /\ ~live[i]
  /\ ref \in refs
  /\ LET s == ctor_ref(Store, i, ref[1]) IN
       /\ Commit(s)
       /\ last' = Rec("ctor_ref", i, 0, ref[1], NULL, NULL, s.calls)
  /\ live' = [live EXCEPT ![i] = TRUE]
  /\ policy' = [policy EXCEPT ![i] = ref[2]]
  /\ refs' = refs \ {ref}
  /\ UNCHANGED <<fresh, callerOwned, dropped, thr>>

\* i = ref;
AssignFromRef(i, ref) ==
  /\ live[i]
  /\ ref \in refs
  /\ policy[i] = ref[2]
  /\ LET s == assign_ref(Store, i, policy[i], ref[1]) IN
       /\ Commit(s)
       /\ last' = Rec("assign_ref", i, 0, ref[1], m_ptr[i], NULL, s.calls)
  /\ refs' = refs \ {ref}
  /\ UNCHANGED <<live, policy, fresh, callerOwned, dropped, thr>>

\* A unique_ptr_base_ref goes out of scope without having been consumed.
\* The struct has no destructor: nothing happens to the address, which is
\* remembered as dropped.
DropRef(ref) ==
  /\ ref \in refs
  /\ refs' = refs \ {ref}
  /\ dropped' = IF ref[1] # NULL THEN dropped \cup {ref[1]} ELSE dropped
  /\ last' = Rec("drop_ref", 1, 0, ref[1], NULL, NULL, << >>)
  /\ UNCHANGED <<live, m_ptr, policy, freed, fresh, callerOwned, thr>>

\* unique_ptr<T1, D1> i = a;  (operator unique_ptr_base<T1, D1> ())
Convert(i, d1, a) ==
  /\ ~live[i] /\ live[a]
  /\ LET r == convert(Store, a)
         s == ctor(r.st, i, r.ret) IN
       /\ Commit(s)
       /\ last' = Rec("convert", i, a, m_ptr[a], NULL, NULL, s.calls)
  /\ live' = [live EXCEPT ![i] = TRUE]
  /\ policy' = [policy EXCEPT ![i] = d1]
  /\ UNCHANGED <<fresh, callerOwned, refs, dropped, thr>>

\* unique_ptr<T, D> i = move (a);
Move(i, a) ==
  /\ ~live[i] /\ live[a]
  /\ LET s == move(Store, i, policy[a], a) IN
       /\ Commit(s)
       /\ last' = Rec("move", i, a, m_ptr[a], NULL, NULL, s.calls)
  /\ live' = [live EXCEPT ![i] = TRUE]
  /\ policy' = [policy EXCEPT ![i] = policy[a]]
  /\ UNCHANGED <<fresh, callerOwned, refs, dropped, thr>>

B2N(b) == IF b THEN 1 ELSE 0

\* x == y, x != y on two owning pointers
Equal(x, y) ==
  /\ live[x] /\ live[y]
  /\ last' = Rec("eq", x, y, m_ptr[y], m_ptr[x],
                 B2N(operator_eq(Store, x, y)), << >>)
  /\ UNCHANGED <<live, m_ptr, policy, freed, fresh, callerOwned, refs, dropped, thr>>

NotEqual(x, y) ==
  /\ live[x] /\ live[y]
  /\ last' = Rec("ne", x, y, m_ptr[y], m_ptr[x],
                 B2N(operator_ne(Store, x, y)), << >>)
  /\ UNCHANGED <<live, m_ptr, policy, freed, fresh, callerOwned, refs, dropped, thr>>

\* the safe_bool operator== / operator!= applied to x and y
SafeBoolEqual(x, y) ==
  /\ live[x] /\ live[y]
  /\ last' = Rec("safe_bool_eq", x, y, m_ptr[y], m_ptr[x],
                 B2N(safe_bool_eq(Store, x, y)), << >>)
  /\ UNCHANGED <<live, m_ptr, policy, freed, fresh, callerOwned, refs, dropped, thr>>

SafeBoolNotEqual(x, y) ==
  /\ live[x] /\ live[y]
  /\ last' = Rec("safe_bool_ne", x, y, m_ptr[y], m_ptr[x],
                 B2N(safe_bool_ne(Store, x, y)), << >>)
  /\ UNCHANGED <<live, m_ptr, policy, freed, fresh, callerOwned, refs, dropped, thr>>

\* The instantiations used by a program that only has gdb::unique_ptr<T>.
DefaultOnly == {"default_delete"}

\* Construct and Reset as the caller that gives an address to one object at
\* a time uses them.
ConstructOwned(i, d, p) == p \in Mine(i) /\ Construct(i, d, p)

ResetOwned(i, p) == p \in Mine(i) /\ Reset(i, p)

\* Calling code that gives every address to one object at a time.
Next ==
  \/ \E i \in Inst, d \in DefaultOnly, p \in Ptr : ConstructOwned(i, d, p)
  \/ \E i \in Inst, a \in Inst : CopyConstruct(i, a)
  \/ \E i \in Inst, a \in Inst : Assign(i, a)
  \/ \E i \in Inst : AssignNull(i)
  \/ \E i \in Inst : Destroy(i)
  \/ \E i \in Inst : BoolTest(i)
  \/ \E i \in Inst : Get(i)
  \/ \E i \in Inst : Release(i)
  \/ \E i \in Inst, p \in Ptr : ResetOwned(i, p)
  \/ \E i \in Inst : ToRef(i)
  \/ \E i \in Inst, ref \in Ptr \X Policy : CtorFromRef(i, ref)
  \/ \E i \in Inst, ref \in Ptr \X Policy : AssignFromRef(i, ref)
  \/ \E ref \in Ptr \X Policy : DropRef(ref)
  \/ \E i \in Inst, d1 \in DefaultOnly, a \in Inst : Convert(i, d1, a)
  \/ \E i \in Inst, a \in Inst : Move(i, a)
  \/ \E x \in Inst, y \in Inst : Equal(x, y)
  \/ \E x \in Inst, y \in Inst : NotEqual(x, y)
  \/ \E x \in Inst, y \in Inst : SafeBoolEqual(x, y)
  \/ \E x \in Inst, y \in Inst : SafeBoolNotEqual(x, y)

Spec == Init /\ [][Next]_vars

\* Calling code that also hands an object an address read with get () from
\* another live object.  A second deleter run on an address is counted and
\* the run goes on; a program that stops there is a prefix of such a run.
NextAlias ==
  \/ \E i \in Inst, d \in DefaultOnly, p \in Ptr : Construct(i, d, p)
  \/ \E i \in Inst, a \in Inst : CopyConstruct(i, a)
  \/ \E i \in Inst, a \in Inst : Assign(i, a)
  \/ \E i \in Inst : Destroy(i)
  \/ \E i \in Inst : Release(i)
  \/ \E i \in Inst, p \in Ptr : Reset(i, p)

SpecAlias == Init /\ [][NextAlias]_vars

\* Calling code that compares objects, also objects that were handed the
\* same address.
NextCompare ==
  \/ \E i \in Inst, d \in DefaultOnly, p \in Ptr : Construct(i, d, p)
  \/ \E i \in Inst : Destroy(i)
  \/ \E x \in Inst, y \in Inst : Equal(x, y)
  \/ \E x \in Inst, y \in Inst : NotEqual(x, y)
  \/ \E x \in Inst, y \in Inst : SafeBoolEqual(x, y)
  \/ \E x \in Inst, y \in Inst : SafeBoolNotEqual(x, y)

SpecCompare == Init /\ [][NextCompare]_vars

\* Calling code that uses gdb::unique_ptr<T> and gdb::unique_malloc_ptr<T>
\* and converts between them, giving every address to one object at a time.
NextPolicy ==
  \/ \E i \in Inst, d \in Policy, p \in Ptr : ConstructOwned(i, d, p)
  \/ \E i \in Inst, d1 \in Policy, a \in Inst : Convert(i, d1, a)
  \/ \E i \in Inst, a \in Inst : Assign(i, a)
  \/ \E i \in Inst, p \in Ptr : ResetOwned(i, p)
  \/ \E i \in Inst : Release(i)
  \/ \E i \in Inst : Destroy(i)

SpecPolicy == Init /\ [][NextPolicy]_vars

(* ---------------- two callers on one object, no lock ---------------- *)

\* The shared object exists and holds an address.
InitRace ==
  \E p \in Addr :
    /\ live = [i \in Inst |-> i = Shared]
    /\ m_ptr = [i \in Inst |-> IF i = Shared THEN p ELSE NULL]
    /\ policy = [i \in Inst |-> "default_delete"]
    /\ freed = [q \in Addr |-> [d \in Policy |-> 0]]
    /\ fresh = Addr \ {p}
    /\ callerOwned = {}
    /\ refs = {}
    /\ dropped = {}
    /\ last = Rec("init", 1, 0, NULL, NULL, NULL, << >>)
    /\ thr = [t \in Thread |-> Idle]

\* Thread t calls Shared.release () or Shared.reset ().
RaceCall(t, op) ==
  /\ thr[t].pc = "idle"
  /\ thr' = [thr EXCEPT ![t].op = op,
                        ![t].pc = IF op = "release" THEN "l193" ELSE "l203"]
  /\ UNCHANGED <<live, m_ptr, policy, freed, fresh, callerOwned, refs,
                 dropped, last>>

\* release (), line 193
RaceReleaseRead(t) ==
  /\ thr[t].pc = "l193"
  /\ thr' = [thr EXCEPT ![t].tmp = release_read(Store, Shared),
                        ![t].pc = "l194"]
  /\ UNCHANGED <<live, m_ptr, policy, freed, fresh, callerOwned, refs,
                 dropped, last>>

\* release (), line 194
RaceReleaseClear(t) ==
  /\ thr[t].pc = "l194"
  /\ Commit(release_clear(Store, Shared))
  /\ thr' = [thr EXCEPT ![t].pc = "l195"]
  /\ UNCHANGED <<live, policy, fresh, callerOwned, refs, dropped, last>>

\* release (), line 195: the caller has the address.
RaceReleaseReturn(t) ==
  /\ thr[t].pc = "l195"
  /\ thr' = [thr EXCEPT ![t].ret = thr[t].tmp, ![t].pc = "done"]
  /\ callerOwned' = IF thr[t].tmp # NULL
                      THEN callerOwned \cup {thr[t].tmp} ELSE callerOwned
  /\ UNCHANGED <<live, m_ptr, policy, freed, fresh, refs, dropped, last>>

\* reset (), line 203
RaceResetTest(t) ==
  /\ thr[t].pc = "l203"
  /\ thr' = [thr EXCEPT ![t].pc = IF reset_test(Store, Shared, NULL)
                                    THEN "l205" ELSE "done"]
  /\ UNCHANGED <<live, m_ptr, policy, freed, fresh, callerOwned, refs,
                 dropped, last>>

\* reset (), line 205: call_deleter () reads m_ptr again.
RaceResetDelete(t) ==
  /\ thr[t].pc = "l205"
  /\ Commit(call_deleter(Store, Shared, policy[Shared]))
  /\ thr' = [thr EXCEPT ![t].pc = "l206"]
  /\ UNCHANGED <<live, policy, fresh, callerOwned, refs, dropped, last>>

\* reset (), line 206
RaceResetStore(t) ==
  /\ thr[t].pc = "l206"
  /\ Commit(reset_store(Store, Shared, NULL))
  /\ thr' = [thr EXCEPT ![t].pc = "done"]
  /\ UNCHANGED <<live, policy, fresh, callerOwned, refs, dropped, last>>

NextRace ==
  \/ \E t \in Thread, op \in {"release", "reset"} : RaceCall(t, op)
  \/ \E t \in Thread : RaceReleaseRead(t)
  \/ \E t \in Thread : RaceReleaseClear(t)
  \/ \E t \in Thread : RaceReleaseReturn(t)
  \/ \E t \in Thread : RaceResetTest(t)
  \/ \E t \in Thread : RaceResetDelete(t)
  \/ \E t \in Thread : RaceResetStore(t)

SpecRace == InitRace /\ [][NextRace]_vars

(* ---------------- the properties ---------------- *)

Handed == Addr \ fresh

AllDead == \A i \in Inst : ~live[i]

Truthy(i) == operator_bool_type(Store, i) # 0

\* C1. Single owner: in every reachable state of calling code that gives an
\* address to one object at a time, whatever transfers were made, at most
\* one live object holds any given non-null address.
C1_SingleOwner == \A p \in Addr : Cardinality(Holders(p)) <= 1

\* A transfer moved a non-null address into another object.
C1_Witness ==
  /\ last.op \in {"copy_ctor", "assign", "convert", "move"}
  /\ last.self # last.other
  /\ last.arg # NULL
  /\ Holders(last.arg) = {last.self}

\* C2. Transfer postcondition: after b is copy-constructed from a or b is
\* assigned from a distinct a that held v (null or not), a.get () is null
\* and b.get () is v.
C2_TransferPost ==
  (last.op \in {"copy_ctor", "assign"} /\ last.self # last.other)
    => /\ get(Store, last.other) = NULL
       /\ get(Store, last.self) = last.arg

\* b took a non-null address from a by assignment while holding another one.
C2_Witness ==
  /\ last.op = "assign"
  /\ last.self # last.other
  /\ last.arg # NULL
  /\ last.pre # NULL
  /\ last.pre # last.arg

\* C3. Exactly-once destruction at scope exit: no deleter has run on an
\* address a live object still holds, and the destructor of an object that
\* holds non-null p makes exactly one deleter call, on p, after which p has
\* been destroyed exactly once.
C3_ExactlyOnceAtExit ==
  /\ \A i \in Inst : (live[i] /\ m_ptr[i] # NULL) => Freed(m_ptr[i]) = 0
  /\ (last.op = "dtor" /\ last.pre # NULL)
       => /\ Len(last.calls) = 1
          /\ last.calls[1][2] = last.pre
          /\ Freed(last.pre) = 1

\* An object that held a non-null address has just been destroyed.
C3_Witness == last.op = "dtor" /\ last.pre # NULL

\* C4. No double free: when the caller gives each address to one object at
\* a time, no address is ever destroyed more than once.
C4_NoDoubleFree == \A p \in Addr : Freed(p) <= 1

\* Every address has been destroyed, the last one by a reset or an
\* assignment.
C4_Witness ==
  /\ \A p \in Addr : Freed(p) = 1
  /\ last.op \in {"reset", "assign", "assign_null", "assign_ref"}
  /\ last.pre # NULL

\* C5 as stated. No leak: once every object is destroyed, every address
\* ever handed to an object and not given back by release () has been
\* destroyed.
C5_NoLeakAsStated ==
  AllDead => \A p \in Handed \ callerOwned : Freed(p) >= 1

\* C5 amended. No leak: once every object is destroyed, every address ever
\* handed to an object has been destroyed, unless release () gave it back
\* or it left in a unique_ptr_base_ref that no object has consumed.
C5_NoLeak ==
  AllDead =>
    \A p \in Handed \ (callerOwned \cup dropped \cup {r[1] : r \in refs}) :
      Freed(p) >= 1

\* Every object is dead and every address was handed out and destroyed.
C5_Witness ==
  /\ AllDead
  /\ Handed = Addr
  /\ \A p \in Addr : Freed(p) = 1
  /\ last.op = "dtor"

\* C6. release () transfers without destroying: it returns the held
\* address, leaves the object null and runs no deleter; destroying the
\* object right afterwards destroys nothing.
C6_ReleaseNoDestroy ==
  [][ /\ (last'.op = "release")
          => /\ last'.ret = m_ptr[last'.self]
             /\ m_ptr'[last'.self] = NULL
             /\ last'.calls = << >>
             /\ freed' = freed
      /\ (last.op = "release" /\ last'.op = "dtor" /\ last'.self = last.self)
          => freed' = freed ]_vars

\* release () has just given a non-null address to the caller.
C6_Witness ==
  /\ last.op = "release"
  /\ last.ret # NULL
  /\ last.ret \in callerOwned
  /\ Freed(last.ret) = 0

\* C7. Idempotent reset: reset (x) on an object that holds x (null or not)
\* makes no deleter call and leaves x held.
C7_IdempotentReset ==
  (last.op = "reset" /\ last.arg = last.pre)
    => /\ last.calls = << >>
       /\ m_ptr[last.self] = last.arg
       /\ (last.arg # NULL => Freed(last.arg) = 0)

\* An object was reset to the non-null address it holds.
C7_Witness == last.op = "reset" /\ last.arg = last.pre /\ last.arg # NULL

\* C8. reset to a different address: exactly one deleter call is made, on
\* the old address (so before the new one is stored), the old pointee if
\* any has then been destroyed once, and the object holds the new address.
C8_ResetDifferent ==
  (last.op = "reset" /\ last.arg # last.pre)
    => /\ Len(last.calls) = 1
       /\ last.calls[1][2] = last.pre
       /\ (last.pre # NULL => Freed(last.pre) = 1)
       /\ (last.arg # NULL => Freed(last.arg) = 0)
       /\ m_ptr[last.self] = last.arg

\* An object holding one non-null address was reset to another one.
C8_Witness ==
  /\ last.op = "reset"
  /\ last.pre # NULL
  /\ last.arg # NULL
  /\ last.arg # last.pre

\* C9. The boolean test tracks ownership: an object tests true iff it holds
\* a non-null address; a default-constructed one tests false, one that took
\* a non-null address tests true, and after release () or reset () it tests
\* false.
C9_BoolTracksOwnership ==
  /\ \A i \in Inst : live[i] => (Truthy(i) <=> m_ptr[i] # NULL)
  /\ last.op = "bool" => (last.ret # 0 <=> last.pre # NULL)
  /\ (last.op = "ctor" /\ last.arg = NULL) => ~Truthy(last.self)
  /\ (last.op \in {"ctor", "reset"} /\ last.arg # NULL) => Truthy(last.self)
  /\ last.op = "release" => ~Truthy(last.self)
  /\ (last.op = "reset" /\ last.arg = NULL) => ~Truthy(last.self)

\* The boolean test of an owning object has just answered true.
C9_Witness == last.op = "bool" /\ last.ret # 0 /\ last.pre # NULL

\* C10. Assign-from with the same address is a no-op: when the other object
\* holds the address the assigned-to one holds (another object, or a = a),
\* no deleter call is made on that address and the assigned-to object holds
\* it afterwards.
C10_AssignSameAddress ==
  (last.op = "assign" /\ last.arg = last.pre)
    => /\ m_ptr[last.self] = last.pre
       /\ \A k \in 1..Len(last.calls) : last.calls[k][2] # last.pre

\* Two different objects held the same non-null address and one was
\* assigned from the other.
C10_Witness ==
  /\ last.op = "assign"
  /\ last.self # last.other
  /\ last.arg = last.pre
  /\ last.pre # NULL

\* Self-assignment of an object that holds a non-null address.
C10_SelfAssigned ==
  /\ last.op = "assign"
  /\ last.self = last.other
  /\ last.pre # NULL

\* C11 as stated. The destructor calls the deleter on the held address when
\* that address is non-null and makes no deleter call when it is null.
C11_DtorNoCallOnNull ==
  last.op = "dtor"
    => IF last.pre # NULL
         THEN Len(last.calls) = 1 /\ last.calls[1][2] = last.pre
         ELSE last.calls = << >>

\* C12. Assigning NULL is reset (): both leave the object null and make the
\* same deleter calls, one on the address held before if it was non-null
\* and none otherwise.
C12_AssignNullIsReset ==
  /\ (last.op = "assign_null" \/ (last.op = "reset" /\ last.arg = NULL))
       => /\ m_ptr[last.self] = NULL
          /\ last.calls = IF last.pre # NULL
                            THEN << <<policy[last.self], last.pre>> >>
                            ELSE << >>
          /\ (last.pre # NULL => Freed(last.pre) = 1)
  /\ \A i \in Inst :
       live[i] => assign_null(Store, i, policy[i])
                    = reset(Store, i, policy[i], NULL)

\* NULL was assigned to an object that held a non-null address.
C12_Witness == last.op = "assign_null" /\ last.pre # NULL

\* The objects of store s that hold p.
HoldersIn(s, p) == {i \in Inst \cup {Tmp} : s.m_ptr[i] = p /\ (i = Tmp \/ live[i])}

\* C13. Cross-type conversion moves ownership: after d holding X is
\* converted into b (directly, or through a unique_ptr_base_ref that b is
\* constructed or assigned from), b holds X and d is null, no deleter call
\* was made on X, and neither in between nor at the end do two objects hold
\* X.
C13_ConversionMoves ==
  /\ \A p \in Addr : Cardinality(Holders(p)) <= 1
  /\ last.op = "convert"
       => /\ m_ptr[last.self] = last.arg
          /\ m_ptr[last.other] = NULL
          /\ last.calls = << >>
  /\ last.op = "to_ref"
       => /\ m_ptr[last.self] = NULL
          /\ last.ret = last.pre
          /\ last.calls = << >>
          /\ \E r \in refs : r[1] = last.pre
          /\ (last.pre # NULL => Holders(last.pre) = {})
  /\ last.op \in {"ctor_ref", "assign_ref"}
       => /\ m_ptr[last.self] = last.arg
          /\ \A k \in 1..Len(last.calls) :
               last.arg # NULL => last.calls[k][2] # last.arg
  /\ (last.op \in {"convert", "ctor_ref", "assign_ref"} /\ last.arg # NULL)
       => /\ Freed(last.arg) = 0
          /\ Holders(last.arg) = {last.self}
  /\ \A a \in Inst :
       (live[a] /\ m_ptr[a] # NULL)
         => LET r == convert(Store, a) IN
              /\ r.ret = m_ptr[a]
              /\ HoldersIn(r.st, m_ptr[a]) = {}

\* An object holding one address was assigned, through a
\* unique_ptr_base_ref, the address another object had held.
C13_Witness ==
  /\ last.op = "assign_ref"
  /\ last.arg # NULL
  /\ last.pre # NULL
  /\ last.pre # last.arg
  /\ m_ptr[last.self] = last.arg

\* C15. get () is a pure observer: it returns the held address, changes no
\* object and runs no deleter; the object destroyed right afterwards still
\* destroys the pointee.
C15_GetPureObserver ==
  [][ /\ (last'.op = "get")
          => /\ last'.ret = m_ptr[last'.self]
             /\ m_ptr' = m_ptr
             /\ live' = live
             /\ freed' = freed
             /\ callerOwned' = callerOwned
             /\ last'.calls = << >>
      /\ (last.op = "get" /\ last.ret # NULL /\ last'.op = "dtor"
            /\ last'.self = last.self)
          => /\ freed' = [freed EXCEPT ![last.ret][policy[last.self]] = @ + 1]
             /\ last'.calls = << <<policy[last.self], last.ret>> >> ]_vars

\* get () has just returned a non-null address that the object still holds.
C15_Witness ==
  /\ last.op = "get"
  /\ last.ret # NULL
  /\ m_ptr[last.self] = last.ret
  /\ Freed(last.ret) = 0

\* C16. Bounded deleter calls: every operation makes at most one deleter
\* call, and construction, copy construction, get (), release (), the
\* boolean test and the comparisons make none.
C16_BoundedPolicyCalls ==
  /\ Len(last.calls) <= 1
  /\ last.op \in {"ctor", "copy_ctor", "get", "release", "bool", "eq", "ne",
                  "safe_bool_eq", "safe_bool_ne"}
       => last.calls = << >>

\* An assignment between two objects that both held an address made its
\* one deleter call.
C16_Witness ==
  /\ last.op = "assign"
  /\ last.pre # NULL
  /\ last.arg # NULL
  /\ Len(last.calls) = 1

\* C18. move () transfers ownership: after r = move (a) with a holding p,
\* r holds p and a is null; the one deleter call, made by the destructor of
\* the by-value parameter, is on NULL (the parameter holds null when it is
\* destroyed), so no deleter ran on p.
C18_MoveTransfers ==
  last.op = "move"
    => /\ m_ptr[last.self] = last.arg
       /\ m_ptr[last.other] = NULL
       /\ Len(last.calls) = 1
       /\ last.calls[1][2] = NULL
       /\ (last.arg # NULL => Freed(last.arg) = 0)

\* move () has just moved a non-null address.
C18_Witness ==
  /\ last.op = "move"
  /\ last.arg # NULL
  /\ Holders(last.arg) = {last.self}

\* C14. Equality of two owning pointers is address identity: x == y is true
\* iff the two held addresses are equal (both null or the same non-null
\* address), x != y is its negation, and a comparison changes no held
\* address and runs no deleter.
C14_EqualityIsIdentity ==
  [][ /\ (last'.op = "eq")
          => (last'.ret = 1 <=> m_ptr[last'.self] = m_ptr[last'.other])
      /\ (last'.op = "ne")
          => (last'.ret = 1 <=> m_ptr[last'.self] # m_ptr[last'.other])
      /\ (last'.op \in {"eq", "ne"})
          => /\ last'.ret \in {0, 1}
             /\ m_ptr' = m_ptr
             /\ live' = live
             /\ freed' = freed
             /\ last'.calls = << >> ]_vars

\* Two different objects holding the same non-null address compared equal.
C14_Witness ==
  /\ last.op = "eq"
  /\ last.self # last.other
  /\ last.pre # NULL
  /\ last.pre = last.arg
  /\ last.ret = 1

\* Two objects holding different non-null addresses compared unequal.
C14_DifferentAddresses ==
  /\ last.op = "eq"
  /\ last.pre # NULL
  /\ last.arg # NULL
  /\ last.pre # last.arg
  /\ last.ret = 0

\* C17. Comparisons through the restricted-boolean conversion are rejected:
\* whatever the truthiness of the two values, the safe_bool operator== and
\* operator!= never yield true.
C17_SafeBoolNeverTrue ==
  /\ last.op \in {"safe_bool_eq", "safe_bool_ne"} => last.ret = 0
  /\ \A x \in Inst, y \in Inst :
       (live[x] /\ live[y])
         => ~safe_bool_eq(Store, x, y) /\ ~safe_bool_ne(Store, x, y)

\* The safe_bool operator== was applied to two different truthy objects.
C17_Witness ==
  /\ last.op = "safe_bool_eq"
  /\ last.self # last.other
  /\ last.pre # NULL
  /\ last.arg # NULL
  /\ Truthy(last.self) /\ Truthy(last.other)

\* C19. Destruction uses the holder's policy: every deleter call of an
\* operation is made with the policy of the object it runs on, on the
\* address that object holds at that moment (NULL inside a = a, whose
\* release () came first), and changes nothing else;
\* no address is destroyed twice; so once an object with policy D holding X
\* was converted into an object with policy D1, X is destroyed by D1 and
\* never by D.
C19_HolderPolicyDestroys ==
  [][ /\ \A k \in 1..Len(last'.calls) :
           /\ last'.calls[k][1] = policy[last'.self]
           /\ last'.calls[k][2] =
                IF last'.op = "assign" /\ last'.self = last'.other
                  THEN NULL ELSE m_ptr[last'.self]
      /\ freed' = IF last'.calls = << >> THEN freed
                  ELSE Deleter(freed, policy[last'.self], last'.calls[1][2])
      /\ \A p \in Addr : Freed(p)' <= 1
      /\ (last.op = "convert" /\ last.arg # NULL)
           => /\ freed[last.arg][policy[last.other]] = 0
              /\ freed[last.arg][policy[last.self]] = 0
      /\ (last.op = "convert" /\ last.arg # NULL /\ last'.op = "dtor"
            /\ last'.self = last.self)
           => freed' = [freed EXCEPT ![last.arg][policy[last.self]] = 1] ]_vars

\* An object with the xfree policy has just destroyed its pointee.
C19_Witness ==
  /\ last.op = "dtor"
  /\ last.pre # NULL
  /\ last.calls = << <<"xfree_deleter", last.pre>> >>
  /\ freed[last.pre]["xfree_deleter"] = 1
  /\ freed[last.pre]["default_delete"] = 0

\* An object with one policy has just been converted into an object with
\* the other policy, which now holds the address.
C19_Converted ==
  /\ last.op = "convert"
  /\ last.arg # NULL
  /\ policy[last.self] # policy[last.other]
  /\ m_ptr[last.self] = last.arg

\* The threads running release () that have executed line 193.
HasRead == {t \in Thread : thr[t].op = "release"
                             /\ thr[t].pc \in {"l194", "l195", "done"}}

\* C20. No internal synchronization: release () is a read of m_ptr (line
\* 193) followed by a separate store of NULL (line 194).  With callers that
\* share an object holding p without a lock, as long as no caller has
\* stored, m_ptr is p and every caller that has read has p; a caller has
\* NULL only if a store came before its read; release () returns what it
\* read; and the deleter has not run on p more often than there are
\* callers inside reset () past line 205.  (That two callers do end up with
\* p is the state C20_BothObtain reaches.)
C20_ReadThenClearNotAtomic ==
  /\ Cardinality(Handed) = 1
  /\ \A p \in Handed :
       /\ m_ptr[Shared] \in {p, NULL}
       /\ (m_ptr[Shared] = p) => (\A t \in HasRead : thr[t].tmp = p)
       /\ (m_ptr[Shared] = p) => (\A t \in Thread : thr[t].pc # "l195")
       /\ \A t \in HasRead :
            /\ thr[t].tmp \in {p, NULL}
            /\ thr[t].tmp = NULL => m_ptr[Shared] = NULL
            /\ thr[t].pc = "done" => thr[t].ret = thr[t].tmp
            /\ thr[t].pc \in {"l195", "done"} => m_ptr[Shared] = NULL
       /\ Freed(p) <= Cardinality({t \in Thread : thr[t].op = "reset"
                                     /\ thr[t].pc \in {"l206", "done"}})
       /\ callerOwned \subseteq {p}

\* Two callers of release () on the same object both obtained p.
C20_BothObtain ==
  \E t \in Thread, u \in Thread :
    /\ t # u
    /\ thr[t].op = "release" /\ thr[t].pc = "done"
    /\ thr[u].op = "release" /\ thr[u].pc = "done"
    /\ thr[t].ret # NULL
    /\ thr[t].ret = thr[u].ret

\* A caller of release () obtained p while a caller of reset () destroyed it.
C20_ReleasedAndDestroyed ==
  \E t \in Thread :
    /\ thr[t].op = "release" /\ thr[t].pc = "done"
    /\ thr[t].ret # NULL
    /\ Freed(thr[t].ret) >= 1

\* Two callers of reset () both destroyed p.
C20_DoubleDestroyed == \E p \in Addr : Freed(p) = 2

====
